---- MODULE Spec2Model ----
(***************************************************************************)
(* Working-days calculator (juan10024/capta-test).                         *)
(*                                                                         *)
(* The WorkingDate value object (snapToWorkingTime, addWorkDays,           *)
(* addWorkHours, fromISOUtc, toISOUtc) and CalendarService, which drives   *)
(* it.  A luxon DateTime in the America/Bogota zone (UTC-5, no DST) is a   *)
(* record [day, hour, minute, second, millisecond]; day counts calendar    *)
(* days from Monday 2025-03-31 (day 0), so 2025-04-10 is day 10.           *)
(***************************************************************************)
EXTENDS Integers, Sequences, FiniteSets, TLC

VARIABLES
    holidays,     \* Set<string> of 'yyyy-MM-dd' keys handed to the engine (day numbers)
    this,         \* the receiver WorkingDate: [date, preserveMilliseconds]
    result,       \* the WorkingDate the called method returned
    op,           \* the method called on `this` ("new" before any call)
    arg,          \* its numeric argument (days or hours)
    origin,       \* the WorkingDate fromISOUtc built, before any chained call
    chain,        \* the methods already chained on `origin` to obtain `this`
    pc,           \* CalendarService.calculateWorkingDate: position in the method
    input,        \* CalculateDateDto [days, hours, date]
    repository,   \* what holidayRepository.findAll() resolves to (IHoliday[])
    findAllCalls, \* number of holidayRepository.findAll() invocations
    workingDate,  \* the local `workingDate` of calculateWorkingDate
    now,          \* what DateTime.now() reads when the request carries no date
    output,       \* the string calculateWorkingDate returns
    isoInput,     \* the string WorkingDate.fromISOUtc was given
    locals,       \* the local variables of the WorkingDate method that is running
    lastFetchTime,  \* HolidayCacheService.lastFetchTime (None is null)
    clock,        \* what `new Date()` reads, in seconds
    config,       \* shared/config: [holidayCacheTtl]
    store,        \* the documents of the Mongo `Holiday` collection
    calls,        \* the HolidayCacheService.findAll() invocations under way
    saves,        \* the lists of the HolidayCacheService.save() calls under way
    calcCall      \* index in `calls` of the calculation's findAll (0: not called)

cacheVars == <<lastFetchTime, clock, config, store, calls, saves, calcCall>>

vars == <<holidays, this, result, op, arg, origin, chain, pc, input, repository, findAllCalls,
          workingDate, now, output, isoInput, locals, cacheVars>>

(***************************************************************************)
(* Bounds of the model.                                                    *)
(***************************************************************************)
FirstDay == 10     \* first UTC calendar day an input instant is drawn from
LastDay == 14      \* last UTC calendar day an input instant is drawn from
MaxDays == 5       \* largest `days` argument
MaxHours == 9      \* largest `hours` argument
MaxHolidays == 2   \* largest holiday set

\* The absent value (undefined / not yet assigned).
None == [none |-> TRUE]

(***************************************************************************)
(* WorkingDate: static configuration.                                      *)
(***************************************************************************)
WORK_START_HOUR == 8
LUNCH_START_HOUR == 12
LUNCH_END_HOUR == 13
WORK_END_HOUR == 17
\* TIMEZONE = 'America/Bogota': minutes to add to UTC to obtain local time.
TIMEZONE == 0 - 300

(***************************************************************************)
(* luxon DateTime operations the engine uses.                              *)
(***************************************************************************)
DateTime(d, h, mi, s, ms) ==
    [day |-> d, hour |-> h, minute |-> mi, second |-> s, millisecond |-> ms]

\* DateTime.plus({ days: n }) / minus({ days: n }): calendar days, local time kept.
plusDays(date, n) == [date EXCEPT !.day = @ + n]
minusDays(date, n) == [date EXCEPT !.day = @ - n]

\* DateTime.plus({ minutes: n }), carrying into hours and days.
plusMinutes(date, n) ==
    LET total == date.day * 1440 + date.hour * 60 + date.minute + n
    IN  [date EXCEPT !.day = total \div 1440,
                     !.hour = (total % 1440) \div 60,
                     !.minute = total % 60]

\* Whole minutes of a DateTime since the start of day 0 (the epoch instant, up to
\* the constant zone offset, with the part below the minute dropped).
toMinutes(date) == (date.day * 24 + date.hour) * 60 + date.minute

\* a.diff(b).as('minutes'); every use has a and b agree on second and millisecond.
diffMinutes(a, b) == toMinutes(a) - toMinutes(b)

\* DateTime.weekday: 1 is Monday ... 7 is Sunday.
weekday(date) == (date.day % 7) + 1

\* date.toFormat('yyyy-MM-dd'): the calendar-date key of the holiday set.
toFormat(date) == date.day

Min(a, b) == IF a <= b THEN a ELSE b

(***************************************************************************)
(* WorkingDate (current implementation, the one CalendarService calls).    *)
(***************************************************************************)
cloneWith(self, newDate) ==
    [date |-> newDate, preserveMilliseconds |-> self.preserveMilliseconds]

\* Mutant: the holiday set is not consulted.
isWorkDay_ignoresHolidays(date, hols) == ~(weekday(date) >= 6)

\* Mutant: Saturday counts as a working day (weekday > 6 for >= 6).
isWorkDay_saturdayWorks(date, hols) ==
    ~(weekday(date) > 6) /\ ~(toFormat(date) \in hols)

isWorkDay(date, hols) ==
    LET isWeekend == weekday(date) >= 6
        isHoliday == toFormat(date) \in hols
    IN  ~isWeekend /\ ~isHoliday

RECURSIVE findNextWorkMomentLoop(_, _)
findNextWorkMomentLoop(nextDate, hols) ==
    IF ~isWorkDay(nextDate, hols)
    THEN findNextWorkMomentLoop(plusDays(nextDate, 1), hols)
    ELSE nextDate

findNextWorkMoment(date, hols) ==
    LET nextDate == [date EXCEPT !.minute = 0, !.second = 0, !.millisecond = 0]
    IN  [findNextWorkMomentLoop(nextDate, hols) EXCEPT !.hour = WORK_START_HOUR]

\* while (!isWorkDay(prev)) prev = prev.minus({ days: 1 })
RECURSIVE previousWorkDay(_, _)
previousWorkDay(prev, hols) ==
    IF ~isWorkDay(prev, hols)
    THEN previousWorkDay(minusDays(prev, 1), hols)
    ELSE prev

endOfWork(date) ==
    [date EXCEPT !.hour = WORK_END_HOUR, !.minute = 0, !.second = 0,
                 !.millisecond = 0]

\* Mutant: the lunch window is taken to include the hour of its end
\* (current.hour <= LUNCH_END_HOUR).
snapToWorkingTime_lunchInclusive(self, hols) ==
    LET current == self.date
    IN  IF ~isWorkDay(current, hols)
        THEN cloneWith(self, endOfWork(previousWorkDay(minusDays(current, 1), hols)))
        ELSE IF current.hour < WORK_START_HOUR
        THEN cloneWith(self, endOfWork(previousWorkDay(minusDays(current, 1), hols)))
        ELSE IF current.hour >= WORK_END_HOUR
        THEN cloneWith(self, endOfWork(current))
        ELSE IF current.hour >= LUNCH_START_HOUR /\ current.hour <= LUNCH_END_HOUR
        THEN cloneWith(self, [current EXCEPT !.hour = LUNCH_START_HOUR,
                                             !.minute = 0, !.second = 0,
                                             !.millisecond = 0])
        ELSE cloneWith(self, current)

\* Mutant: inside the lunch window the moment is moved to 17:00 instead of 12:00.
snapToWorkingTime_lunchToClose(self, hols) ==
    LET current == self.date
    IN  IF ~isWorkDay(current, hols)
        THEN cloneWith(self, endOfWork(previousWorkDay(minusDays(current, 1), hols)))
        ELSE IF current.hour < WORK_START_HOUR
        THEN cloneWith(self, endOfWork(previousWorkDay(minusDays(current, 1), hols)))
        ELSE IF current.hour >= WORK_END_HOUR
                \/ (current.hour >= LUNCH_START_HOUR /\ current.hour < LUNCH_END_HOUR)
        THEN cloneWith(self, endOfWork(current))
        ELSE cloneWith(self, current)

\* Mutant: before 08:00 the previous calendar day is taken without skipping
\* weekends and holidays.
snapToWorkingTime_previousCalendarDay(self, hols) ==
    LET current == self.date
    IN  IF ~isWorkDay(current, hols)
        THEN cloneWith(self, endOfWork(previousWorkDay(minusDays(current, 1), hols)))
        ELSE IF current.hour < WORK_START_HOUR
        THEN cloneWith(self, endOfWork(minusDays(current, 1)))
        ELSE IF current.hour >= WORK_END_HOUR
        THEN cloneWith(self, endOfWork(current))
        ELSE IF current.hour >= LUNCH_START_HOUR /\ current.hour < LUNCH_END_HOUR
        THEN cloneWith(self, [current EXCEPT !.hour = LUNCH_START_HOUR,
                                             !.minute = 0, !.second = 0,
                                             !.millisecond = 0])
        ELSE cloneWith(self, current)

\* Mutant: after close only the hour is set; minute, second and millisecond stay.
snapToWorkingTime_closeKeepsMinutes(self, hols) ==
    LET current == self.date
    IN  IF ~isWorkDay(current, hols)
        THEN cloneWith(self, endOfWork(previousWorkDay(minusDays(current, 1), hols)))
        ELSE IF current.hour < WORK_START_HOUR
        THEN cloneWith(self, endOfWork(previousWorkDay(minusDays(current, 1), hols)))
        ELSE IF current.hour >= WORK_END_HOUR
        THEN cloneWith(self, [current EXCEPT !.hour = WORK_END_HOUR])
        ELSE IF current.hour >= LUNCH_START_HOUR /\ current.hour < LUNCH_END_HOUR
        THEN cloneWith(self, [current EXCEPT !.hour = LUNCH_START_HOUR,
                                             !.minute = 0, !.second = 0,
                                             !.millisecond = 0])
        ELSE cloneWith(self, current)

snapToWorkingTime(self, hols) ==
    LET current == self.date
    IN  IF ~isWorkDay(current, hols)
        THEN \* do { current = current.minus(1 day) } while (!isWorkDay(current))
             cloneWith(self, endOfWork(previousWorkDay(minusDays(current, 1), hols)))
        ELSE IF current.hour < WORK_START_HOUR
        THEN cloneWith(self, endOfWork(previousWorkDay(minusDays(current, 1), hols)))
        ELSE IF current.hour >= WORK_END_HOUR
        THEN cloneWith(self, endOfWork(current))
        ELSE IF current.hour >= LUNCH_START_HOUR /\ current.hour < LUNCH_END_HOUR
        THEN cloneWith(self, [current EXCEPT !.hour = LUNCH_START_HOUR,
                                             !.minute = 0, !.second = 0,
                                             !.millisecond = 0])
        ELSE cloneWith(self, current)

RECURSIVE addWorkDaysLoop(_, _, _, _)
addWorkDaysLoop(newDate, daysAdded, days, hols) ==
    IF daysAdded < days
    THEN LET next == plusDays(newDate, 1)
         IN  addWorkDaysLoop(next,
                             IF isWorkDay(next, hols) THEN daysAdded + 1 ELSE daysAdded,
                             days, hols)
    ELSE newDate

\* Mutant: the loop tests its condition after the first day step (do ... while)
\* and only a negative count returns early.
addWorkDays_stepsFirst(self, days, hols) ==
    IF days < 0 THEN self
    ELSE LET next == plusDays(self.date, 1)
         IN  cloneWith(self, addWorkDaysLoop(next,
                                             IF isWorkDay(next, hols) THEN 1 ELSE 0,
                                             days, hols))

\* Mutant: whole weeks of working days are dropped from the count.
addWorkDays_dropsWeeks(self, days, hols) ==
    IF days <= 0 THEN self
    ELSE cloneWith(self, addWorkDaysLoop(self.date, 0, days % 5, hols))

addWorkDays(self, days, hols) ==
    IF days <= 0 THEN self
    ELSE cloneWith(self, addWorkDaysLoop(self.date, 0, days, hols))

RECURSIVE addWorkHoursLoop(_, _, _)
addWorkHoursLoop(current, remainingMinutes, hols) ==
    IF ~(remainingMinutes > 0) THEN current
    ELSE IF ~isWorkDay(current, hols) \/ current.hour >= WORK_END_HOUR
    THEN addWorkHoursLoop(findNextWorkMoment(plusDays(current, 1), hols),
                          remainingMinutes, hols)
    ELSE IF current.hour < WORK_START_HOUR
    THEN addWorkHoursLoop(findNextWorkMoment(current, hols), remainingMinutes, hols)
    ELSE IF current.hour >= LUNCH_START_HOUR /\ current.hour < LUNCH_END_HOUR
    THEN addWorkHoursLoop([current EXCEPT !.hour = LUNCH_END_HOUR, !.minute = 0],
                          remainingMinutes, hols)
    ELSE LET isMorning == current.hour < LUNCH_START_HOUR
             blockEnd == IF isMorning
                         THEN [current EXCEPT !.hour = LUNCH_START_HOUR, !.minute = 0]
                         ELSE [current EXCEPT !.hour = WORK_END_HOUR, !.minute = 0]
             availableMinutes == diffMinutes(blockEnd, current)
             minutesToUse == Min(remainingMinutes, availableMinutes)
         IN  addWorkHoursLoop(plusMinutes(current, minutesToUse),
                              remainingMinutes - minutesToUse, hols)

\* Mutant: whole working days (8 hours each) are added with addWorkDays first
\* and only the remaining hours are walked.
addWorkHours_wholeDaysFirst(self, hours, hols) ==
    IF hours <= 0 THEN self
    ELSE LET fullDays == hours \div 8
             start == addWorkDays(self, fullDays, hols).date
         IN  cloneWith(self, addWorkHoursLoop(start, (hours - 8 * fullDays) * 60, hols))

\* Mutant: a walk that would leave the receiver's day stops at its 17:00.
addWorkHours_clampsAtClose(self, hours, hols) ==
    IF hours <= 0 THEN self
    ELSE LET current == addWorkHoursLoop(self.date, hours * 60, hols)
         IN  cloneWith(self, IF current.day > self.date.day
                             THEN endOfWork(self.date)
                             ELSE current)

\* Mutant: a walk that ends at 17:00 rolls over to 08:00 of the next working day.
addWorkHours_rollsOverAtClose(self, hours, hols) ==
    IF hours <= 0 THEN self
    ELSE LET current == addWorkHoursLoop(self.date, hours * 60, hols)
         IN  cloneWith(self, IF current.hour >= WORK_END_HOUR
                             THEN findNextWorkMoment(plusDays(current, 1), hols)
                             ELSE current)

addWorkHours(self, hours, hols) ==
    IF hours <= 0 THEN self
    ELSE cloneWith(self, addWorkHoursLoop(self.date, hours * 60, hols))

\* An ISO-8601 UTC string: its fields, and how many fraction digits it writes.
IsoString(d, h, mi, s, ms, digits) ==
    [day |-> d, hour |-> h, minute |-> mi, second |-> s, millisecond |-> ms,
     fraction |-> digits]

\* DateTime.fromISO(isoDate, { zone: 'utc' }).setZone(TIMEZONE)
fromISOUtc(isoDate, preserveMilliseconds) ==
    LET utc == DateTime(isoDate.day, isoDate.hour, isoDate.minute, isoDate.second,
                        isoDate.millisecond)
    IN  [date |-> plusMinutes(utc, TIMEZONE),
         preserveMilliseconds |-> preserveMilliseconds]

\* Mutant: the moment is formatted without converting it back to UTC first.
toISOUtc_skipsToUTC(self) ==
    IsoString(self.date.day, self.date.hour, self.date.minute, self.date.second,
              self.date.millisecond,
              IF self.date.millisecond # 0 \/ self.preserveMilliseconds THEN 3 ELSE 0)

\* this.date.toUTC().toISO({ suppressMilliseconds: !_preserveMilliseconds }):
\* luxon writes the fraction when it is not suppressed or the millisecond is not 0.
toISOUtc(self) ==
    LET utc == plusMinutes(self.date, 0 - TIMEZONE)
        suppressMilliseconds == ~self.preserveMilliseconds
    IN  IsoString(utc.day, utc.hour, utc.minute, utc.second, utc.millisecond,
                  IF utc.millisecond # 0 \/ ~suppressMilliseconds THEN 3 ELSE 0)

(***************************************************************************)
(* WorkingDate as src/domain/working-date.value-object.ts has it: the      *)
(* implementation of addWorkHours that advances whole working days first   *)
(* and walks the remainder minute by minute.  Interval.fromISO reads its   *)
(* bounds in the process's zone, taken here to be the business zone.       *)
(***************************************************************************)
domain_isWorkDay(date, hols) ==
    LET isWeekend == weekday(date) > 5
        isHoliday == toFormat(date) \in hols
    IN  ~isWeekend /\ ~isHoliday

\* Interval.contains: start <= date < end.
domain_isWorkTime(date) ==
    LET t == ((date.hour * 60 + date.minute) * 60 + date.second) * 1000
                + date.millisecond
        morningWorkHours == t >= 8 * 3600000 /\ t < 12 * 3600000
        afternoonWorkHours == t >= 13 * 3600000 /\ t < 17 * 3600000
    IN  morningWorkHours \/ afternoonWorkHours

RECURSIVE domain_addWorkDaysLoop(_, _, _, _)
domain_addWorkDaysLoop(newDate, daysAdded, days, hols) ==
    IF daysAdded < days
    THEN LET next == plusDays(newDate, 1)
         IN  domain_addWorkDaysLoop(next,
                 IF domain_isWorkDay(next, hols) THEN daysAdded + 1 ELSE daysAdded,
                 days, hols)
    ELSE newDate

domain_addWorkDays(self, days, hols) ==
    IF days <= 0 THEN self
    ELSE [self EXCEPT !.date = domain_addWorkDaysLoop(self.date, 0, days, hols)]

\* while (!isWorkDay(currentDate)) currentDate = currentDate.plus(1 day).set(08:00)
RECURSIVE domain_skipNonWorkDays(_, _)
domain_skipNonWorkDays(currentDate, hols) ==
    IF ~domain_isWorkDay(currentDate, hols)
    THEN domain_skipNonWorkDays(
             [plusDays(currentDate, 1) EXCEPT !.hour = WORK_START_HOUR, !.minute = 0],
             hols)
    ELSE currentDate

\* One pass of `while (remainingDuration.as('minutes') > 0) { ... }` over the
\* loop state [currentDate, remainingMinutes]; no change once the loop has ended.
domain_addWorkHoursStep(st, hols) ==
    IF ~(st.remainingMinutes > 0) THEN st
    ELSE LET stepped == domain_skipNonWorkDays(plusMinutes(st.currentDate, 1), hols)
         IN  IF domain_isWorkTime(stepped)
             THEN [currentDate |-> stepped,
                   remainingMinutes |-> st.remainingMinutes - 1]
             ELSE IF stepped.hour >= WORK_END_HOUR
             THEN [st EXCEPT !.currentDate =
                      [plusDays(stepped, 1) EXCEPT !.hour = WORK_START_HOUR,
                                                   !.minute = 0]]
             ELSE IF stepped.hour >= LUNCH_START_HOUR /\ stepped.hour < LUNCH_END_HOUR
             THEN [st EXCEPT !.currentDate =
                      [stepped EXCEPT !.hour = LUNCH_END_HOUR, !.minute = 0]]
             ELSE IF stepped.hour < WORK_START_HOUR
             THEN [st EXCEPT !.currentDate =
                      [stepped EXCEPT !.hour = WORK_START_HOUR, !.minute = 0]]
             ELSE [st EXCEPT !.currentDate = stepped]

\* n passes of the loop, split in halves to keep the evaluation shallow.
RECURSIVE domain_addWorkHoursPasses(_, _, _)
domain_addWorkHoursPasses(st, n, hols) ==
    IF n = 0 \/ ~(st.remainingMinutes > 0) THEN st
    ELSE IF n = 1 THEN domain_addWorkHoursStep(st, hols)
    ELSE domain_addWorkHoursPasses(domain_addWorkHoursPasses(st, n \div 2, hols),
                                   n - n \div 2, hols)

\* The loop run to its end: a pass that consumes no minute is a jump, and the
\* pass after a jump consumes one, so 2 * remainingMinutes + 2 passes suffice.
domain_addWorkHoursLoop(currentDate, remainingMinutes, hols) ==
    domain_addWorkHoursPasses(
        [currentDate |-> currentDate, remainingMinutes |-> remainingMinutes],
        2 * remainingMinutes + 2, hols).currentDate

domain_addWorkHours(self, hours, hols) ==
    IF hours <= 0 THEN self
    ELSE LET hoursPerWorkDay ==
                 WORK_END_HOUR - WORK_START_HOUR - (LUNCH_END_HOUR - LUNCH_START_HOUR)
             fullDaysToAdd == IF hours >= hoursPerWorkDay
                              THEN hours \div hoursPerWorkDay ELSE 0
             currentDate == IF hours >= hoursPerWorkDay
                            THEN domain_addWorkDays(self, fullDaysToAdd, hols).date
                            ELSE self.date
             remainingHours == hours - fullDaysToAdd * hoursPerWorkDay
         IN  [self EXCEPT !.date =
                 domain_addWorkHoursLoop(currentDate, remainingHours * 60, hols)]


(***************************************************************************)
(* Inputs.                                                                 *)
(***************************************************************************)
Minutes == {0, 30}
\* <<second, millisecond>> of an input instant
SubMinutes == {<<0, 0>>, <<30, 500>>}
HolidayDates == {9, 11, 14}
HolidaySets == {H \in SUBSET HolidayDates : Cardinality(H) <= MaxHolidays}

\* Whole seconds are written without a fraction ("...:00Z") or with ".000Z".
Instants ==
    {iso \in {IsoString(d, h, mi, sm[1], sm[2], digits) :
                 d \in FirstDay..LastDay, h \in 0..23, mi \in Minutes,
                 sm \in SubMinutes, digits \in {0, 3}} :
        iso.millisecond # 0 => iso.fraction = 3}

\* No HolidayCacheService is involved.
NoCache ==
    /\ lastFetchTime = None
    /\ clock = 0
    /\ config = None
    /\ store = {}
    /\ calls = <<>>
    /\ saves = <<>>
    /\ calcCall = 0

NoCalc ==
    /\ pc = "idle"
    /\ input = None
    /\ repository = <<>>
    /\ findAllCalls = 0
    /\ workingDate = None
    /\ now = None
    /\ output = None

(***************************************************************************)
(* Spec: a WorkingDate built by fromISOUtc receives one method call.       *)
(***************************************************************************)
Init ==
    /\ holidays \in HolidaySets
    /\ isoInput \in Instants
    /\ locals = None
    /\ this = fromISOUtc(isoInput, isoInput.fraction = 3)
    /\ origin = this
    /\ chain = <<>>
    /\ result = None
    /\ op = "new"
    /\ arg = 0
    /\ NoCalc
    /\ NoCache

SnapToWorkingTime ==
    /\ op = "new"
    /\ result' = snapToWorkingTime(this, holidays)
    /\ op' = "snapToWorkingTime"
    /\ arg' = 0
    /\ UNCHANGED <<holidays, this, origin, chain, pc, input, repository, findAllCalls,
                   workingDate, now, output,
                   isoInput, locals, cacheVars>>

AddWorkDays ==
    /\ op = "new"
    /\ \E days \in 0..MaxDays :
          /\ result' = addWorkDays(this, days, holidays)
          /\ arg' = days
    /\ op' = "addWorkDays"
    /\ UNCHANGED <<holidays, this, origin, chain, pc, input, repository, findAllCalls,
                   workingDate, now, output,
                   isoInput, locals, cacheVars>>

AddWorkHours ==
    /\ op = "new"
    /\ \E hours \in 0..MaxHours :
          /\ result' = addWorkHours(this, hours, holidays)
          /\ arg' = hours
    /\ op' = "addWorkHours"
    /\ UNCHANGED <<holidays, this, origin, chain, pc, input, repository, findAllCalls,
                   workingDate, now, output,
                   isoInput, locals, cacheVars>>

\* startDate.snapToWorkingTime(holidays).addWorkDays(..) / .addWorkHours(..):
\* the caller invokes the next method on the object snapToWorkingTime returned.
Chain ==
    /\ op = "snapToWorkingTime"
    /\ chain = <<>>
    /\ this' = result
    /\ chain' = Append(chain, op)
    /\ op' = "new"
    /\ result' = None
    /\ arg' = 0
    /\ UNCHANGED <<holidays, origin, pc, input, repository, findAllCalls,
                   workingDate, now, output,
                   isoInput, locals, cacheVars>>

\* startDate.toISOUtc() on the object fromISOUtc returned.
CallToISOUtc ==
    /\ op = "new"
    /\ chain = <<>>
    /\ result' = toISOUtc(this)
    /\ op' = "toISOUtc"
    /\ arg' = 0
    /\ UNCHANGED <<holidays, this, origin, chain, pc, input, repository, findAllCalls,
                   workingDate, now, output, isoInput, locals, cacheVars>>

Next == SnapToWorkingTime \/ AddWorkDays \/ AddWorkHours \/ Chain \/ CallToISOUtc

Spec == Init /\ [][Next]_vars

(***************************************************************************)
(* The loops of WorkingDate, one iteration per step (specification         *)
(* SpecLoops): `locals` holds the local variables of the running method,   *)
(* and `result` is assigned when it returns.                               *)
(***************************************************************************)
InitLoops ==
    /\ holidays \in HolidaySets
    /\ isoInput \in {iso \in Instants : iso.fraction = 3}
    /\ locals = None
    /\ this = fromISOUtc(isoInput, TRUE)
    /\ origin = this
    /\ chain = <<>>
    /\ result = None
    /\ op = "new"
    /\ arg = 0
    /\ NoCalc
    /\ NoCache

loopFrame == <<holidays, this, origin, chain, pc, input, repository, findAllCalls,
               workingDate, now, output, isoInput, cacheVars>>

\* addWorkHours lines 188-191: the early return, or the locals before the loop.
CallAddWorkHours ==
    /\ op = "new"
    /\ \E hours \in 0..MaxHours :
          /\ arg' = hours
          /\ IF hours <= 0
             THEN result' = this /\ locals' = None
             ELSE /\ result' = None
                  /\ locals' = [current |-> this.date, remainingMinutes |-> hours * 60]
    /\ op' = "addWorkHours"
    /\ UNCHANGED loopFrame

\* Mutant: at or after closing time the next work moment is searched from the
\* current day instead of the following one.
addWorkHoursBody_sameDay(l, hols) ==
    LET current == l.current
    IN  IF ~isWorkDay(current, hols) \/ current.hour >= WORK_END_HOUR
        THEN [l EXCEPT !.current = findNextWorkMoment(current, hols)]
        ELSE IF current.hour < WORK_START_HOUR
        THEN [l EXCEPT !.current = findNextWorkMoment(current, hols)]
        ELSE IF current.hour >= LUNCH_START_HOUR /\ current.hour < LUNCH_END_HOUR
        THEN [l EXCEPT !.current = [current EXCEPT !.hour = LUNCH_END_HOUR, !.minute = 0]]
        ELSE LET isMorning == current.hour < LUNCH_START_HOUR
                 blockEnd == IF isMorning
                             THEN [current EXCEPT !.hour = LUNCH_START_HOUR, !.minute = 0]
                             ELSE [current EXCEPT !.hour = WORK_END_HOUR, !.minute = 0]
                 availableMinutes == diffMinutes(blockEnd, current)
                 minutesToUse == Min(l.remainingMinutes, availableMinutes)
             IN  [current |-> plusMinutes(current, minutesToUse),
                  remainingMinutes |-> l.remainingMinutes - minutesToUse]

\* addWorkHours lines 194-222: the body of `while (remainingMinutes > 0)`.
addWorkHoursBody(l, hols) ==
    LET current == l.current
    IN  IF ~isWorkDay(current, hols) \/ current.hour >= WORK_END_HOUR
        THEN [l EXCEPT !.current = findNextWorkMoment(plusDays(current, 1), hols)]
        ELSE IF current.hour < WORK_START_HOUR
        THEN [l EXCEPT !.current = findNextWorkMoment(current, hols)]
        ELSE IF current.hour >= LUNCH_START_HOUR /\ current.hour < LUNCH_END_HOUR
        THEN [l EXCEPT !.current = [current EXCEPT !.hour = LUNCH_END_HOUR, !.minute = 0]]
        ELSE LET isMorning == current.hour < LUNCH_START_HOUR
                 blockEnd == IF isMorning
                             THEN [current EXCEPT !.hour = LUNCH_START_HOUR, !.minute = 0]
                             ELSE [current EXCEPT !.hour = WORK_END_HOUR, !.minute = 0]
                 availableMinutes == diffMinutes(blockEnd, current)
                 minutesToUse == Min(l.remainingMinutes, availableMinutes)
             IN  [current |-> plusMinutes(current, minutesToUse),
                  remainingMinutes |-> l.remainingMinutes - minutesToUse]

\* One iteration of the loop of addWorkHours.
AddWorkHoursIteration ==
    /\ op = "addWorkHours" /\ locals # None
    /\ locals.remainingMinutes > 0
    /\ locals' = addWorkHoursBody(locals, holidays)
    /\ UNCHANGED <<result, op, arg, loopFrame>>

\* addWorkHours line 225: the loop has ended.
AddWorkHoursReturns ==
    /\ op = "addWorkHours" /\ locals # None
    /\ ~(locals.remainingMinutes > 0)
    /\ result' = cloneWith(this, locals.current)
    /\ locals' = None
    /\ UNCHANGED <<op, arg, loopFrame>>

\* addWorkDays lines 167-169.
CallAddWorkDays ==
    /\ op = "new"
    /\ \E days \in 0..MaxDays :
          /\ arg' = days
          /\ IF days <= 0
             THEN result' = this /\ locals' = None
             ELSE /\ result' = None
                  /\ locals' = [newDate |-> this.date, daysAdded |-> 0]
    /\ op' = "addWorkDays"
    /\ UNCHANGED loopFrame

\* addWorkDays lines 171-174: the body of `while (daysAdded < days)`.
AddWorkDaysIteration ==
    /\ op = "addWorkDays" /\ locals # None
    /\ locals.daysAdded < arg
    /\ LET newDate == plusDays(locals.newDate, 1)
       IN  locals' = [newDate |-> newDate,
                      daysAdded |-> IF isWorkDay(newDate, holidays)
                                    THEN locals.daysAdded + 1
                                    ELSE locals.daysAdded]
    /\ UNCHANGED <<result, op, arg, loopFrame>>

\* addWorkDays line 176.
AddWorkDaysReturns ==
    /\ op = "addWorkDays" /\ locals # None
    /\ ~(locals.daysAdded < arg)
    /\ result' = cloneWith(this, locals.newDate)
    /\ locals' = None
    /\ UNCHANGED <<op, arg, loopFrame>>

\* snapToWorkingTime lines 107-110, 123-124, 138-163: the branch taken; the two
\* that step back over days enter their loop, the others return.
CallSnapToWorkingTime ==
    /\ op = "new"
    /\ LET current == this.date
       IN  IF ~isWorkDay(current, holidays)
           THEN /\ locals' = [date |-> current, loop |-> "do"]
                /\ result' = None
           ELSE IF current.hour < WORK_START_HOUR
           THEN /\ locals' = [date |-> minusDays(current, 1), loop |-> "while"]
                /\ result' = None
           ELSE /\ locals' = None
                /\ result' = snapToWorkingTime(this, holidays)
    /\ op' = "snapToWorkingTime"
    /\ arg' = 0
    /\ UNCHANGED loopFrame

\* snapToWorkingTime lines 110-112 and 125-127: one step back; the `do` body
\* runs once before its condition is tested.
SnapIteration ==
    /\ op = "snapToWorkingTime" /\ locals # None
    /\ locals.loop = "do" \/ ~isWorkDay(locals.date, holidays)
    /\ locals' = [date |-> minusDays(locals.date, 1), loop |-> "while"]
    /\ UNCHANGED <<result, op, arg, loopFrame>>

\* snapToWorkingTime lines 113-120 and 128-135.
SnapReturns ==
    /\ op = "snapToWorkingTime" /\ locals # None
    /\ locals.loop = "while" /\ isWorkDay(locals.date, holidays)
    /\ result' = cloneWith(this, endOfWork(locals.date))
    /\ locals' = None
    /\ UNCHANGED <<op, arg, loopFrame>>

NextLoops ==
    \/ CallAddWorkHours \/ AddWorkHoursIteration \/ AddWorkHoursReturns
    \/ CallAddWorkDays \/ AddWorkDaysIteration \/ AddWorkDaysReturns
    \/ CallSnapToWorkingTime \/ SnapIteration \/ SnapReturns

\* The JavaScript thread runs the method it has entered until it returns.
SpecLoops == InitLoops /\ [][NextLoops]_vars /\ WF_vars(NextLoops)

(***************************************************************************)
(* CalendarService.calculateWorkingDate (specification SpecCalc).          *)
(***************************************************************************)
\* IHoliday: a JavaScript Date (a UTC instant) and a name.
IHoliday(d, h, name) == [date |-> DateTime(d, h, 0, 0, 0), name |-> name]

\* h.date.toISOString().split('T')[0]: the UTC calendar date of the holiday.
isoDatePart(jsDate) == jsDate.day

\* new Set(holidays.map((h) => h.date.toISOString().split('T')[0]))
holidaySetOf(list) == {isoDatePart(list[i].date) : i \in 1..Len(list)}

\* isoDate != null && /\.\d{3}Z$/.test(isoDate)
hasMillisecondsOf(isoDate) == isoDate # None /\ isoDate.fraction = 3

\* What the holiday repository resolves to: nothing, the Easter holidays of the
\* examples (as the tests build them, and as ApiHolidayRepository builds them at
\* the start of the Bogota day), a Friday, a Monday and a Friday.
Repositories ==
    { <<>>,
      <<IHoliday(17, 0, "Maundy Thursday"), IHoliday(18, 0, "Good Friday")>>,
      <<IHoliday(17, 5, "Holiday"), IHoliday(18, 5, "Holiday")>>,
      <<IHoliday(11, 5, "Holiday")>>,
      <<IHoliday(14, 5, "Holiday"), IHoliday(11, 5, "Holiday")>> }

\* The `date` query parameter: absent, or one of these UTC instants.
CalcDates ==
    { IsoString(10, 15, 0, 0, 0, 0),      \* 2025-04-10T15:00:00Z      Thu 10:00
      IsoString(10, 15, 0, 0, 0, 3),      \* 2025-04-10T15:00:00.000Z
      IsoString(11, 22, 0, 0, 0, 0),      \* 2025-04-11T22:00:00Z      Fri 17:00
      IsoString(12, 19, 0, 0, 0, 0),      \* 2025-04-12T19:00:00Z      Sat 14:00
      IsoString(9, 17, 30, 0, 0, 0),      \* 2025-04-09T17:30:00Z      Wed 12:30
      IsoString(9, 13, 0, 0, 0, 0),       \* 2025-04-09T13:00:00Z      Wed 08:00
      IsoString(9, 21, 30, 30, 500, 3),   \* 2025-04-09T21:30:30.500Z  Wed 16:30:30.5
      IsoString(9, 21, 30, 30, 500, 1),   \* 2025-04-09T21:30:30.5Z
      IsoString(9, 21, 0, 30, 500, 3),    \* 2025-04-09T21:00:30.500Z  Wed 16:00:30.5
      IsoString(14, 3, 0, 0, 0, 0),       \* 2025-04-14T03:00:00Z      Sun 22:00
      IsoString(14, 11, 30, 0, 0, 0) }    \* 2025-04-14T11:30:00Z      Mon 06:30

Clock == { DateTime(9, 16, 30, 15, 250), DateTime(13, 23, 0, 0, 0) }

InitCalc ==
    /\ pc = "start"
    /\ \E days \in 0..MaxDays, hours \in 0..MaxHours, date \in CalcDates \cup {None} :
          /\ input = [days |-> days, hours |-> hours, date |-> date]
          /\ IF date = None THEN now \in Clock ELSE now = None
    /\ repository \in Repositories
    /\ findAllCalls = 0
    /\ holidays = {}
    /\ workingDate = None
    /\ output = None
    /\ this = None /\ result = None /\ op = "new" /\ arg = 0
    /\ origin = None /\ chain = <<>>
    /\ isoInput = None
    /\ locals = None
    /\ NoCache

\* const holidays = await this.holidayRepository.findAll(); const holidaySet = ...
FindAll ==
    /\ pc = "start"
    /\ findAllCalls' = findAllCalls + 1
    /\ holidays' = holidaySetOf(repository)
    /\ pc' = "fetched"
    /\ UNCHANGED <<this, result, op, arg, origin, chain, input, repository,
                   workingDate, now, output,
                   isoInput, locals, cacheVars>>

\* let workingDate = WorkingDate.fromISOUtc(isoDate, hasMilliseconds)
FromISOUtc ==
    /\ pc = "fetched"
    /\ LET isoDate == input.date
           hasMilliseconds == hasMillisecondsOf(isoDate)
       IN  workingDate' =
               IF isoDate # None
               THEN fromISOUtc(isoDate, hasMilliseconds)
               ELSE [date |-> plusMinutes(now, TIMEZONE),
                     preserveMilliseconds |-> hasMilliseconds]
    /\ origin' = workingDate'
    /\ chain' = Append(chain, "fromISOUtc")
    /\ pc' = "created"
    /\ UNCHANGED <<holidays, this, result, op, arg, input, repository,
                   findAllCalls, now, output,
                   isoInput, locals, cacheVars>>

\* Mutant: the holidays are fetched again before the snap.
Snap_refetches ==
    /\ pc = "created"
    /\ findAllCalls' = findAllCalls + 1
    /\ holidays' = holidaySetOf(repository)
    /\ workingDate' = snapToWorkingTime(workingDate, holidays')
    /\ chain' = Append(chain, "snapToWorkingTime")
    /\ pc' = "snapped"
    /\ UNCHANGED <<this, result, op, arg, origin, input, repository, now, output,
                   isoInput, locals, cacheVars>>

\* workingDate = workingDate.snapToWorkingTime(holidaySet)
Snap ==
    /\ pc = "created"
    /\ workingDate' = snapToWorkingTime(workingDate, holidays)
    /\ chain' = Append(chain, "snapToWorkingTime")
    /\ pc' = "snapped"
    /\ UNCHANGED <<holidays, this, result, op, arg, origin, input, repository,
                   findAllCalls, now, output,
                   isoInput, locals, cacheVars>>

\* workingDate = workingDate.addWorkDays(days, holidaySet)
AddDays ==
    /\ pc = "snapped"
    /\ workingDate' = addWorkDays(workingDate, input.days, holidays)
    /\ chain' = Append(chain, "addWorkDays")
    /\ pc' = "daysAdded"
    /\ UNCHANGED <<holidays, this, result, op, arg, origin, input, repository,
                   findAllCalls, now, output,
                   isoInput, locals, cacheVars>>

\* workingDate = workingDate.addWorkHours(hours, holidaySet)
AddHours ==
    /\ pc = "daysAdded"
    /\ workingDate' = addWorkHours(workingDate, input.hours, holidays)
    /\ chain' = Append(chain, "addWorkHours")
    /\ pc' = "hoursAdded"
    /\ UNCHANGED <<holidays, this, result, op, arg, origin, input, repository,
                   findAllCalls, now, output,
                   isoInput, locals, cacheVars>>

\* return workingDate.toISOUtc()
ToISOUtc ==
    /\ pc = "hoursAdded"
    /\ output' = toISOUtc(workingDate)
    /\ chain' = Append(chain, "toISOUtc")
    /\ pc' = "done"
    /\ UNCHANGED <<holidays, this, result, op, arg, origin, input, repository,
                   findAllCalls, workingDate, now,
                   isoInput, locals, cacheVars>>

calculateWorkingDate ==
    FindAll \/ FromISOUtc \/ Snap \/ AddDays \/ AddHours \/ ToISOUtc

SpecCalc == InitCalc /\ [][calculateWorkingDate]_vars

(***************************************************************************)
(* HolidayCacheService over MongoHolidayRepository and                     *)
(* ApiHolidayRepository, and a calculation that uses it (specification     *)
(* SpecCache).  Every `await` is a point where other handlers may run.     *)
(***************************************************************************)
MaxClock == 1   \* seconds the clock may advance
Ttl == 1        \* HOLIDAY_CACHE_TTL_SECONDS the process is started with
MaxCalls == 2   \* findAll() invocations under way at once
MaxSaves == 1   \* HolidayCacheService.save() invocations under way at once

\* A JavaScript Date, by its epoch time in seconds.
Date(t) == [getTime |-> t]

\* One element of the remote API's JSON array: a date string, parsable or not.
DateString(d) == [valid |-> TRUE, day |-> d]
InvalidDateString == [valid |-> FALSE, day |-> 0]

\* The outcome of axios.get: resolved with `data`, or rejected.
Response(data) == [failed |-> FALSE, data |-> data]
Failure == [failed |-> TRUE, data |-> <<>>]

\* ApiHolidayRepository.findAll: date strings become holidays named 'Holiday' at
\* the start of their Bogota day (05:00 UTC); unparsable ones are dropped; any
\* error yields [].
ApiHolidayRepository_findAll(response) ==
    IF response.failed THEN <<>>
    ELSE LET data == response.data
             mapped == [i \in 1..Len(data) |->
                           IF data[i].valid
                           THEN IHoliday(data[i].day, 0 - TIMEZONE \div 60, "Holiday")
                           ELSE None]
         IN  SelectSeq(mapped, LAMBDA h : h # None)

\* HolidayModel.find().sort({ date: 1 }): the documents in date order.
RECURSIVE sortByDate(_)
sortByDate(docs) ==
    IF docs = {} THEN <<>>
    ELSE LET first == CHOOSE h \in docs :
                          \A g \in docs : toMinutes(h.date) <= toMinutes(g.date)
         IN  <<first>> \o sortByDate(docs \ {first})

MongoHolidayRepository_findAll(docs) == sortByDate(docs)

\* Mutant: the operation inserts the holiday without filtering on its date.
updateOne_insertOne(docs, holiday) == docs \cup {holiday}

\* updateOne({ filter: { date }, update: { $set: holiday }, upsert: true })
updateOne(docs, holiday) ==
    {h \in docs : h.date # holiday.date} \cup {holiday}

\* The first n operations of HolidayModel.bulkWrite(bulkOps), in order.
RECURSIVE bulkWrite(_, _, _)
bulkWrite(docs, holidayList, n) ==
    IF n = 0 THEN docs
    ELSE updateOne(bulkWrite(docs, holidayList, n - 1), holidayList[n])

MongoHolidayRepository_save(docs, holidayList) ==
    IF Len(holidayList) = 0 THEN docs
    ELSE bulkWrite(docs, holidayList, Len(holidayList))

\* Mutant: the comparison with the TTL is inverted.
isCacheValid_inverted(lastFetch, now_, ttl) ==
    IF lastFetch = None THEN FALSE
    ELSE LET diffInSeconds == now_.getTime - lastFetch.getTime
         IN  diffInSeconds > ttl

\* HolidayCacheService.isCacheValid
isCacheValid(lastFetch, now_, ttl) ==
    IF lastFetch = None THEN FALSE
    ELSE LET diffInSeconds == now_.getTime - lastFetch.getTime
         IN  diffInSeconds < ttl

\* A findAll() invocation: the await it is suspended at (or how it ended), its
\* locals, and the state of the write it started.  "idle": no invocation uses
\* the slot; "over": its caller has the outcome and only its write is left.
IdleCall ==
    [pc |-> "idle",
     cacheValid |-> FALSE,
     holidaysFromDb |-> <<>>,
     fetched |-> FALSE,             \* apiRepository.findAll() was called
     response |-> Response(<<>>),   \* what axios.get gave it
     holidaysFromApi |-> <<>>,
     returned |-> <<>>,
     write |-> "none"]

NewCall(cacheValid) ==
    [IdleCall EXCEPT
        !.pc = IF cacheValid THEN "dbRepository.findAll" ELSE "apiRepository.findAll",
        !.cacheValid = cacheValid]

\* What the remote API may answer.
ApiResponses ==
    { Failure,
      Response(<<DateString(17), DateString(18)>>),
      Response(<<InvalidDateString, DateString(11)>>) }

\* What the collection may hold when the process starts.
StoredHolidays ==
    { {}, {IHoliday(17, 5, "Holiday"), IHoliday(18, 5, "Holiday")} }

\* The lists HolidayCacheService.save() is called with.
SaveLists == { <<>>, <<IHoliday(18, 5, "Good Friday")>> }

\* The request whose calculation is followed: 5 days and 4 hours from
\* 2025-04-10T15:00:00Z.
CacheInputs ==
    { [days |-> 5, hours |-> 4, date |-> IsoString(10, 15, 0, 0, 0, 0)] }

InitCache ==
    /\ lastFetchTime = None
    /\ clock = 0
    /\ config = [holidayCacheTtl |-> Ttl]
    /\ store \in StoredHolidays
    /\ calls = [c \in 1..MaxCalls |-> IdleCall]
    /\ saves = <<>>
    /\ calcCall = 0
    /\ pc = "start"
    /\ input \in CacheInputs
    /\ now = None
    /\ repository = <<>>
    /\ findAllCalls = 0
    /\ holidays = {}
    /\ workingDate = None
    /\ output = None
    /\ this = None /\ result = None /\ op = "new" /\ arg = 0
    /\ origin = None /\ chain = <<>>
    /\ isoInput = None
    /\ locals = None

calcVars == <<holidays, this, result, op, arg, origin, chain, pc, input, repository,
              findAllCalls, workingDate, now, output, isoInput, locals, calcCall>>

\* A findAll() promise is settled and the continuation of the `await` on it has
\* not run yet.  Continuations are microtasks: they run before the event loop
\* takes the next request, I/O completion or timer.
continuationPending ==
    \E c \in 1..MaxCalls :
        /\ calls[c].pc \in {"returned", "rejected"}
        /\ c = calcCall => pc = "awaitFindAll"

\* Mutant: a findAll that starts while another refresh is under way (a remote
\* fetch in flight or its write pending) does not start a refresh of its own
\* and reads the store instead.
enterFindAll_singleFlight(c) ==
    /\ ~continuationPending
    /\ calls[c].pc = "idle"
    /\ calls' = [calls EXCEPT ![c] =
                    NewCall(\/ isCacheValid(lastFetchTime, Date(clock),
                                            config.holidayCacheTtl)
                            \/ \E d \in 1..MaxCalls :
                                  \/ calls[d].pc = "apiRepository.findAll"
                                  \/ calls[d].write = "pending")]

\* findAll lines 25-28, 37: isCacheValid() and the call it leads to, up to the
\* await.
enterFindAll(c) ==
    /\ ~continuationPending
    /\ calls[c].pc = "idle"
    /\ calls' = [calls EXCEPT ![c] = NewCall(isCacheValid(lastFetchTime, Date(clock),
                                                          config.holidayCacheTtl))]

\* calculateWorkingDate line 25: holidayRepository.findAll() is called and
\* awaited (the calculation's invocation is the first one of `calls`).
CalcFindAll ==
    /\ pc = "start"
    /\ enterFindAll(1)
    /\ calcCall' = 1
    /\ findAllCalls' = findAllCalls + 1
    /\ pc' = "awaitFindAll"
    /\ UNCHANGED <<holidays, this, result, op, arg, origin, chain, input, repository,
                   workingDate, now, output, isoInput, locals,
                   lastFetchTime, clock, config, store, saves>>

\* Another request calls findAll().
OtherFindAll(c) ==
    /\ c > 1
    /\ \A d \in 2..(c - 1) : calls[d].pc # "idle"    \* the first free slot
    /\ enterFindAll(c)
    /\ UNCHANGED <<calcVars, lastFetchTime, clock, config, store, saves>>

\* The other request's `await findAll()` continues with the outcome: the
\* invocation is gone, except for the write it left pending.
OtherFindAllEnds(c) ==
    /\ c > 1
    /\ calls[c].pc \in {"returned", "rejected"}
    /\ calls' = [calls EXCEPT ![c] =
                    IF calls[c].write = "pending"
                    THEN [IdleCall EXCEPT !.pc = "over",
                                          !.holidaysFromApi = calls[c].holidaysFromApi,
                                          !.returned = calls[c].returned,
                                          !.write = "pending"]
                    ELSE IdleCall]
    /\ UNCHANGED <<calcVars, lastFetchTime, clock, config, store, saves>>

\* findAll lines 28-33: dbRepository.findAll() resolves.
DbFindAllResolves(c) ==
    /\ ~continuationPending
    /\ calls[c].pc = "dbRepository.findAll"
    /\ LET holidaysFromDb == MongoHolidayRepository_findAll(store)
       IN  calls' = [calls EXCEPT
                        ![c].holidaysFromDb = holidaysFromDb,
                        ![c].returned = holidaysFromDb,
                        ![c].pc = IF Len(holidaysFromDb) > 0
                                  THEN "returned" ELSE "apiRepository.findAll"]
    /\ UNCHANGED <<calcVars, lastFetchTime, clock, config, store, saves>>

\* findAll line 28: dbRepository.findAll() rejects (the query fails); nothing
\* catches it, so findAll rejects.
DbFindAllRejects(c) ==
    /\ ~continuationPending
    /\ calls[c].pc = "dbRepository.findAll"
    /\ calls' = [calls EXCEPT ![c].pc = "rejected"]
    /\ UNCHANGED <<calcVars, lastFetchTime, clock, config, store, saves>>

\* Mutant: findAll awaits the write it starts (await dbRepository.save(...)).
ApiFindAllResolves_awaitsSave(c) ==
    /\ ~continuationPending
    /\ calls[c].pc = "apiRepository.findAll"
    /\ \E response \in ApiResponses :
          LET holidaysFromApi == ApiHolidayRepository_findAll(response)
          IN  calls' = [calls EXCEPT
                           ![c].fetched = TRUE,
                           ![c].response = response,
                           ![c].holidaysFromApi = holidaysFromApi,
                           ![c].returned = holidaysFromApi,
                           ![c].write = IF Len(holidaysFromApi) > 0
                                        THEN "pending" ELSE "none",
                           ![c].pc = IF Len(holidaysFromApi) > 0
                                     THEN "dbRepository.save" ELSE "returned"]
    /\ UNCHANGED <<calcVars, lastFetchTime, clock, config, store, saves>>

\* Mutant: ApiHolidayRepository.findAll has no try/catch, so a failed request
\* rejects it and, through the await, findAll.
ApiFindAllResolves_rejectsOnFailure(c) ==
    /\ ~continuationPending
    /\ calls[c].pc = "apiRepository.findAll"
    /\ \E response \in ApiResponses :
          LET holidaysFromApi == ApiHolidayRepository_findAll(response)
          IN  calls' = [calls EXCEPT
                           ![c].fetched = TRUE,
                           ![c].response = response,
                           ![c].holidaysFromApi = holidaysFromApi,
                           ![c].returned = holidaysFromApi,
                           ![c].write = IF Len(holidaysFromApi) > 0
                                        THEN "pending" ELSE "none",
                           ![c].pc = IF response.failed THEN "rejected" ELSE "returned"]
    /\ UNCHANGED <<calcVars, lastFetchTime, clock, config, store, saves>>

\* Mutant: when the remote source gave nothing, findAll returns what the store
\* holds.
ApiFindAllResolves_fallsBackToStore(c) ==
    /\ ~continuationPending
    /\ calls[c].pc = "apiRepository.findAll"
    /\ \E response \in ApiResponses :
          LET holidaysFromApi == ApiHolidayRepository_findAll(response)
          IN  calls' = [calls EXCEPT
                           ![c].fetched = TRUE,
                           ![c].response = response,
                           ![c].holidaysFromApi = holidaysFromApi,
                           ![c].returned = IF Len(holidaysFromApi) > 0
                                           THEN holidaysFromApi
                                           ELSE MongoHolidayRepository_findAll(store),
                           ![c].write = IF Len(holidaysFromApi) > 0
                                        THEN "pending" ELSE "none",
                           ![c].pc = "returned"]
    /\ UNCHANGED <<calcVars, lastFetchTime, clock, config, store, saves>>

\* findAll lines 37-47: apiRepository.findAll() resolves; a non-empty list
\* starts dbRepository.save(...).then(...), which is not awaited.
ApiFindAllResolves(c) ==
    /\ ~continuationPending
    /\ calls[c].pc = "apiRepository.findAll"
    /\ \E response \in ApiResponses :
          LET holidaysFromApi == ApiHolidayRepository_findAll(response)
          IN  calls' = [calls EXCEPT
                           ![c].fetched = TRUE,
                           ![c].response = response,
                           ![c].holidaysFromApi = holidaysFromApi,
                           ![c].returned = holidaysFromApi,
                           ![c].write = IF Len(holidaysFromApi) > 0
                                        THEN "pending" ELSE "none",
                           ![c].pc = "returned"]
    /\ UNCHANGED <<calcVars, lastFetchTime, clock, config, store, saves>>

\* The invocation once its write has ended: one that was only waiting for the
\* write is gone.
writeOver(call, outcome) ==
    IF call.pc = "over" THEN IdleCall ELSE [call EXCEPT !.write = outcome]

\* Mutant: the `then` callback does not record the time of the refresh.
BackgroundSaveResolves_forgetsFetchTime(c) ==
    /\ ~continuationPending
    /\ calls[c].write = "pending"
    /\ store' = MongoHolidayRepository_save(store, calls[c].holidaysFromApi)
    /\ calls' = [calls EXCEPT ![c] = writeOver(calls[c], "fulfilled")]
    /\ UNCHANGED <<calcVars, lastFetchTime, clock, config, saves>>

\* findAll lines 41-44: the write completes and the `then` callback runs.
BackgroundSaveResolves(c) ==
    /\ ~continuationPending
    /\ calls[c].write = "pending"
    /\ store' = MongoHolidayRepository_save(store, calls[c].holidaysFromApi)
    /\ lastFetchTime' = Date(clock)
    /\ calls' = [calls EXCEPT ![c] = writeOver(calls[c], "fulfilled")]
    /\ UNCHANGED <<calcVars, clock, config, saves>>

\* findAll line 41: the write fails after n of its operations; the promise
\* `then` returned rejects and has no handler.
BackgroundSaveRejects(c) ==
    /\ ~continuationPending
    /\ calls[c].write = "pending"
    /\ \E n \in 0..(Len(calls[c].holidaysFromApi) - 1) :
          store' = bulkWrite(store, calls[c].holidaysFromApi, n)
    /\ calls' = [calls EXCEPT ![c] = writeOver(calls[c], "unhandledRejection")]
    /\ UNCHANGED <<calcVars, lastFetchTime, clock, config, saves>>

\* save lines 51-52: dbRepository.save(holidays) is called and awaited.
Save ==
    /\ ~continuationPending
    /\ Len(saves) < MaxSaves
    /\ \E holidayList \in SaveLists : saves' = Append(saves, holidayList)
    /\ UNCHANGED <<calcVars, lastFetchTime, clock, config, store, calls>>

\* The sequence without its element i.
remove(seq, i) == SubSeq(seq, 1, i - 1) \o SubSeq(seq, i + 1, Len(seq))

\* save lines 52-53: the awaited write completes and lastFetchTime is assigned.
SaveResolves(i) ==
    /\ ~continuationPending
    /\ store' = MongoHolidayRepository_save(store, saves[i])
    /\ lastFetchTime' = Date(clock)
    /\ saves' = remove(saves, i)
    /\ UNCHANGED <<calcVars, clock, config, calls>>

\* Mutant: save() assigns lastFetchTime whether or not the write succeeded
\* (try { await ... } finally { ... }).
SaveRejects_setsFetchTime(i) ==
    /\ ~continuationPending
    /\ \E n \in 0..(Len(saves[i]) - 1) : store' = bulkWrite(store, saves[i], n)
    /\ lastFetchTime' = Date(clock)
    /\ saves' = remove(saves, i)
    /\ UNCHANGED <<calcVars, clock, config, calls>>

\* save line 52: the write fails after n of its operations and the await
\* rejects save(); line 53 is not reached.
SaveRejects(i) ==
    /\ ~continuationPending
    /\ \E n \in 0..(Len(saves[i]) - 1) : store' = bulkWrite(store, saves[i], n)
    /\ saves' = remove(saves, i)
    /\ UNCHANGED <<calcVars, lastFetchTime, clock, config, calls>>

\* Time passes.
Tick ==
    /\ ~continuationPending
    /\ clock < MaxClock
    /\ clock' = clock + 1
    /\ UNCHANGED <<calcVars, lastFetchTime, config, store, calls, saves>>

\* calculateWorkingDate lines 25-44: findAll() resolved; the rest of the method
\* runs without another await.
CalcResumes ==
    /\ pc = "awaitFindAll"
    /\ calls[calcCall].pc = "returned"
    /\ LET holidaySet == holidaySetOf(calls[calcCall].returned)
           created == fromISOUtc(input.date, hasMillisecondsOf(input.date))
           final == addWorkHours(addWorkDays(snapToWorkingTime(created, holidaySet),
                                             input.days, holidaySet),
                                 input.hours, holidaySet)
       IN  /\ repository' = calls[calcCall].returned
           /\ holidays' = holidaySet
           /\ origin' = created
           /\ workingDate' = final
           /\ output' = toISOUtc(final)
    /\ chain' = <<"fromISOUtc", "snapToWorkingTime", "addWorkDays", "addWorkHours",
                  "toISOUtc">>
    /\ pc' = "done"
    /\ UNCHANGED <<this, result, op, arg, input, findAllCalls, now, isoInput,
                   locals, cacheVars>>

\* calculateWorkingDate line 25: findAll() rejected; the method has no try, so
\* its own promise rejects.
CalcRejects ==
    /\ pc = "awaitFindAll"
    /\ calls[calcCall].pc = "rejected"
    /\ pc' = "rejected"
    /\ UNCHANGED <<holidays, this, result, op, arg, origin, chain, input, repository,
                   findAllCalls, workingDate, now, output, isoInput, locals, cacheVars>>

NextCache ==
    \/ CalcFindAll
    \/ \E c \in 1..MaxCalls : OtherFindAll(c)
    \/ \E c \in 1..MaxCalls : OtherFindAllEnds(c)
    \/ \E c \in 1..MaxCalls : DbFindAllResolves(c)
    \/ \E c \in 1..MaxCalls : DbFindAllRejects(c)
    \/ \E c \in 1..MaxCalls : ApiFindAllResolves(c)
    \/ \E c \in 1..MaxCalls : BackgroundSaveResolves(c)
    \/ \E c \in 1..MaxCalls : BackgroundSaveRejects(c)
    \/ Save
    \/ \E i \in 1..Len(saves) : SaveResolves(i)
    \/ \E i \in 1..Len(saves) : SaveRejects(i)
    \/ Tick
    \/ CalcResumes
    \/ CalcRejects

SpecCache == InitCache /\ [][NextCache]_vars

(***************************************************************************)
(* Vocabulary of the properties: the business calendar, stated on its own. *)
(***************************************************************************)
\* Monday to Friday and not a holiday.
WorkingDay(d, H) == (d % 7) \in 0..4 /\ d \notin H

\* How far the properties look for a working day around a given day.
Horizon == 2 * MaxDays + MaxHolidays + 4

\* Instant a is strictly earlier than b / not later than b.
msOfMinute(date) == date.second * 1000 + date.millisecond
Before(a, b) ==
    \/ toMinutes(a) < toMinutes(b)
    \/ toMinutes(a) = toMinutes(b) /\ msOfMinute(a) < msOfMinute(b)
NotAfter(a, b) == Before(a, b) \/ (toMinutes(a) = toMinutes(b) /\ msOfMinute(a) = msOfMinute(b))

MsOfDay(t) == ((t.hour * 60 + t.minute) * 60 + t.second) * 1000 + t.millisecond
HourMs == 60 * 60 * 1000
Max(a, b) == IF a >= b THEN a ELSE b
Overlap(lo, hi, from, to) == Max(0, Min(hi, to) - Max(lo, from))

\* Working time of day d lying inside [lo, hi] (milliseconds of the day).
WorkingMsOfDay(d, lo, hi, H) ==
    IF WorkingDay(d, H)
    THEN Overlap(lo, hi, 8 * HourMs, 12 * HourMs) + Overlap(lo, hi, 13 * HourMs, 17 * HourMs)
    ELSE 0

RECURSIVE WorkingMsFrom(_, _, _, _)
WorkingMsFrom(d, a, b, H) ==
    IF d > b.day THEN 0
    ELSE WorkingMsOfDay(d,
                        IF d = a.day THEN MsOfDay(a) ELSE 0,
                        IF d = b.day THEN MsOfDay(b) ELSE 24 * HourMs,
                        H)
         + WorkingMsFrom(d + 1, a, b, H)

\* Working time (08:00-12:00 and 13:00-17:00 of working days) between a and b.
WorkingMsBetween(a, b, H) == WorkingMsFrom(a.day, a, b, H)

PreviousWorkingDay(d, H) ==
    CHOOSE p \in (d - Horizon)..(d - 1) :
        WorkingDay(p, H) /\ \A q \in (p + 1)..(d - 1) : ~WorkingDay(q, H)

NthWorkingDayAfter(d, n, H) ==
    CHOOSE e \in (d + 1)..(d + Horizon) :
        WorkingDay(e, H) /\ Cardinality({q \in (d + 1)..e : WorkingDay(q, H)}) = n

InLunch(t) == t.hour = 12
HasFraction(t) == t.second # 0 \/ t.millisecond # 0

\* The next valid working instant of a moment past closing, on a non-working
\* day, or inside the lunch window of a working day.
NextValidInstant(t, H) ==
    IF WorkingDay(t.day, H) /\ InLunch(t)
    THEN DateTime(t.day, 13, 0, 0, 0)
    ELSE DateTime(NthWorkingDayAfter(t.day, 1, H), 8, 0, 0, 0)

(***************************************************************************)
(* Properties of the engine (specification Spec).                          *)
(***************************************************************************)

\* C1: addWorkHours(h), h > 0, adds exactly h hours of business time: the
\* working time between the receiver and the returned moment is 60*h minutes.
C1_ExactBusinessTime ==
    (op = "addWorkHours" /\ arg > 0)
        => WorkingMsBetween(this.date, result.date, holidays) = arg * HourMs

\* C2: the result of addWorkHours(h), h > 0, is never at a time-of-day in
\* 12:00-12:59 and never on a non-working day.
C2_LandingInvariant ==
    (op = "addWorkHours" /\ arg > 0)
        => /\ ~InLunch(result.date)
           /\ WorkingDay(result.date.day, holidays)

\* The working day D, if any, on which `hours` hours of business time counted
\* from moment t end exactly at 17:00:00 (a set: empty when they end elsewhere).
DayWhoseCloseEnds(t, hours, H) ==
    LET leftToday == WorkingMsOfDay(t.day, MsOfDay(t), 17 * HourMs, H)
        rest == hours * HourMs - leftToday
    IN  IF leftToday > 0 /\ rest = 0 THEN {t.day}
        ELSE IF rest > 0 /\ rest % (8 * HourMs) = 0
        THEN {NthWorkingDayAfter(t.day, rest \div (8 * HourMs), H)}
        ELSE {}

C4_CorrectedBeforeConsuming ==
    (op = "addWorkHours" /\ arg > 0
        /\ (this.date.hour >= 17
              \/ (WorkingDay(this.date.day, holidays) /\ InLunch(this.date))))
        => /\ Before(NextValidInstant(this.date, holidays), result.date)
           /\ WorkingMsBetween(NextValidInstant(this.date, holidays), result.date,
                               holidays) = arg * HourMs

C6_SnapToPreviousClose ==
    (op = "snapToWorkingTime"
        /\ (~WorkingDay(this.date.day, holidays) \/ this.date.hour < 8))
        => result.date
             = DateTime(PreviousWorkingDay(this.date.day, holidays), 17, 0, 0, 0)

C6_Witness ==
    /\ op = "snapToWorkingTime"
    /\ WorkingDay(this.date.day, holidays) /\ this.date.hour < 8
    /\ result.date.day < this.date.day - 3
    /\ result.date = DateTime(result.date.day, 17, 0, 0, 0)

C8_NthWorkingDay ==
    (op = "addWorkDays" /\ arg > 0)
        => result.date
             = [this.date EXCEPT !.day = NthWorkingDayAfter(this.date.day, arg, holidays)]

C8_Witness ==
    /\ op = "addWorkDays" /\ arg = 2
    /\ result.date.day >= this.date.day + 5
    /\ result.date.hour = this.date.hour /\ result.date.minute = 30

\* C9: for every start moment, holiday set and hour count the decomposed
\* computation (floor(h/8) whole working days by addWorkDays, then the
\* remaining h mod 8 hours stepped finely) returns the same moment as the walk
\* that consumes all h hours through the working blocks.
C9_DecompositionEquivalence ==
    op = "addWorkHours"
        => domain_addWorkHours(this, arg, holidays).date = result.date

(***************************************************************************)
(* Properties of the calculation (specification SpecCalc).                 *)
(***************************************************************************)

\* C10: the calculation applies snap, then addWorkDays(days), then
\* addWorkHours(hours), against one holiday set, and holidays are skipped like
\* weekends: 2025-04-10T15:00:00Z with holidays {2025-04-17, 2025-04-18},
\* 5 days and 4 hours gives 2025-04-21T20:00:00Z.
C10_OrderAndScenarioC ==
    pc = "done" =>
        /\ chain = <<"fromISOUtc", "snapToWorkingTime", "addWorkDays",
                     "addWorkHours", "toISOUtc">>
        /\ holidays = holidaySetOf(repository)
        /\ output = toISOUtc(addWorkHours(
                                 addWorkDays(snapToWorkingTime(origin, holidays),
                                             input.days, holidays),
                                 input.hours, holidays))
        /\ (/\ input = [days |-> 5, hours |-> 4,
                        date |-> IsoString(10, 15, 0, 0, 0, 0)]
            /\ holidays = {17, 18})
              => output = IsoString(21, 20, 0, 0, 0, 0)

C10_Witness ==
    /\ pc = "done"
    /\ input = [days |-> 5, hours |-> 4, date |-> IsoString(10, 15, 0, 0, 0, 0)]
    /\ holidays = {17, 18}
    /\ output = IsoString(21, 20, 0, 0, 0, 0)

\* C11: within one calculation holidayRepository.findAll is invoked exactly
\* once, before the WorkingDate is built, and the set made from its result is
\* the one snapToWorkingTime, addWorkDays and addWorkHours are given.
C11_FetchedOnce ==
    /\ pc = "start" => findAllCalls = 0
    /\ pc \in {"fetched", "created", "snapped", "daysAdded", "hoursAdded", "done"}
          => findAllCalls = 1 /\ holidays = holidaySetOf(repository)
    /\ pc = "snapped"
          => workingDate = snapToWorkingTime(origin, holidaySetOf(repository))
    /\ pc = "hoursAdded"
          => workingDate
               = addWorkHours(addWorkDays(snapToWorkingTime(origin, holidaySetOf(repository)),
                                          input.days, holidaySetOf(repository)),
                              input.hours, holidaySetOf(repository))

C11_Witness ==
    /\ pc = "done"
    /\ findAllCalls = 1
    /\ holidays = {11, 14}
    /\ input.days > 0 /\ input.hours > 0

(***************************************************************************)
(* Algebraic properties of the engine (specification Spec).                *)
(***************************************************************************)

\* C12: zero is the identity of both additions: addWorkDays(0) and
\* addWorkHours(0) return the receiver itself, whatever its day and time.
C12_ZeroIsIdentity ==
    (op \in {"addWorkDays", "addWorkHours"} /\ arg = 0) => result = this

C12_Witness ==
    /\ op = "addWorkHours" /\ arg = 0
    /\ ~WorkingDay(this.date.day, holidays)
    /\ this.date.hour = 12
    /\ result = this

\* C13: addWorkDays is monotone in its count: a smaller count never gives a
\* later moment than a larger one, from the same receiver and holiday set.
C13_MonotoneInCount ==
    op = "addWorkDays"
        => \A n1 \in 0..(arg - 1) :
              NotAfter(addWorkDays(this, n1, holidays).date, result.date)

C13_Witness ==
    /\ op = "addWorkDays" /\ arg = 3
    /\ ~WorkingDay(this.date.day, holidays)
    /\ Before(addWorkDays(this, 2, holidays).date, result.date)
    /\ result.date.day >= this.date.day + 5

C15_MillisecondsIffExplicit ==
    /\ pc \in {"created", "snapped", "daysAdded", "hoursAdded", "done"}
          => workingDate.preserveMilliseconds = hasMillisecondsOf(input.date)
    /\ pc = "done"
          => (output.fraction > 0 <=> (input.date # None /\ input.date.fraction > 0))

(***************************************************************************)
(* Properties of the holiday cache (specification SpecCache).              *)
(***************************************************************************)
\* The elements of a list.
ListOf(list) == {list[i] : i \in 1..Len(list)}

\* lastFetchTime is set and less than the TTL old.
Fresh == lastFetchTime # None /\ clock - lastFetchTime.getTime < config.holidayCacheTtl

\* C16: a findAll that starts while the cache is fresh asks the store first,
\* and when the store answers with a non-empty list that list is returned:
\* the remote source is not called, no write is started and lastFetchTime is
\* left alone.
C16_CacheHit ==
    [][\A c \in 1..MaxCalls :
          /\ (calls[c].pc = "idle" /\ calls'[c].pc # "idle" /\ Fresh)
                => calls'[c].pc = "dbRepository.findAll"
          /\ (calls[c].pc = "dbRepository.findAll"
                 /\ calls'[c].pc \notin {"dbRepository.findAll", "rejected"})
                => IF store # {}
                   THEN /\ calls'[c].pc = "returned"
                        /\ ListOf(calls'[c].returned) = store
                        /\ Len(calls'[c].returned) = Cardinality(store)
                        /\ ~calls'[c].fetched
                        /\ calls'[c].write = "none"
                        /\ store' = store
                        /\ lastFetchTime' = lastFetchTime
                   ELSE calls'[c].pc = "apiRepository.findAll"]_vars

C16_Witness ==
    \E c \in 1..MaxCalls :
        /\ calls[c].pc = "returned"
        /\ calls[c].cacheValid /\ ~calls[c].fetched
        /\ ListOf(calls[c].returned) = {IHoliday(17, 5, "Holiday"), IHoliday(18, 5, "Holiday")}
        /\ lastFetchTime # None

\* The calendar dates the remote source delivered (none when it failed).
RemoteDates(response) ==
    IF response.failed THEN {}
    ELSE {ds.day : ds \in {x \in ListOf(response.data) : x.valid}}

\* C17: a findAll that starts while the cache is not fresh goes to the remote
\* source (as does one that found the store empty, C16) and returns what the
\* remote source delivered.  A non-empty list starts a write of that list to
\* the store, and when the write completes the store holds the list and
\* lastFetchTime is the current time, so the cache is fresh from then on; an
\* empty list starts no write and changes neither the store nor lastFetchTime.
C17_CacheRefresh ==
    [][\A c \in 1..MaxCalls :
          /\ (calls[c].pc = "idle" /\ calls'[c].pc # "idle" /\ ~Fresh)
                => calls'[c].pc = "apiRepository.findAll"
          /\ (calls[c].pc = "apiRepository.findAll" /\ calls'[c] # calls[c])
                => LET list == calls'[c].returned
                   IN  /\ calls'[c].pc = "returned"
                       /\ {h.date.day : h \in ListOf(list)}
                             = RemoteDates(calls'[c].response)
                       /\ Len(list) = Cardinality(RemoteDates(calls'[c].response))
                       /\ calls'[c].write = IF Len(list) > 0 THEN "pending" ELSE "none"
                       /\ store' = store
                       /\ lastFetchTime' = lastFetchTime
          /\ (calls[c].write = "pending" /\ calls'[c].write = "fulfilled")
                => /\ ListOf(calls[c].returned) \subseteq store'
                   /\ lastFetchTime' = Date(clock)
                   /\ Fresh']_vars

\* A refresh stored the holiday of day 11 (no store starts with it and no save
\* brings it) and a later call was served it from the store.
C17_Witness ==
    \E c \in 1..MaxCalls :
        /\ calls[c].pc = "returned"
        /\ calls[c].cacheValid /\ ~calls[c].fetched
        /\ calls[c].returned = <<IHoliday(11, 5, "Holiday")>>

\* C18: the write a refreshing findAll starts is not waited for: whatever the
\* state of the write (pending, completed or failed), the findAll that
\* started it has returned, with the list it fetched; and a calculation whose
\* findAll started a write is never rejected.
C18_FireAndForget ==
    /\ \A c \in 1..MaxCalls :
          calls[c].write # "none"
             => /\ calls[c].pc \in {"returned", "over"}
                /\ calls[c].returned = calls[c].holidaysFromApi
                /\ Len(calls[c].returned) > 0
    /\ (calcCall # 0 /\ calls[calcCall].write # "none")
          => /\ pc \in {"awaitFindAll", "done"}
             /\ pc = "done" => repository = calls[calcCall].returned

\* The write of the calculation's findAll failed, and the calculation still
\* finished with the fetched holidays (2025-04-17 and 2025-04-18).
C18_Witness ==
    /\ pc = "done"
    /\ calls[calcCall].write = "unhandledRejection"
    /\ holidays = {17, 18}
    /\ output = IsoString(21, 20, 0, 0, 0, 0)

\* C19: a failure of the holiday source during a calculation (the store read
\* or the remote fetch) never rejects the calculation: it finishes, with an
\* empty holiday set when the remote fetch failed.
C19_SourceFailureDegrades ==
    /\ pc # "rejected"
    /\ (pc = "done" /\ calls[calcCall].fetched /\ calls[calcCall].response.failed)
          => holidays = {}

\* C20: when the remote source fails, findAll returns the empty list instead
\* of raising (whatever the store holds, in particular when it is empty), and
\* the calculation finishes as it does without holidays: 5 days and 4 hours
\* from 2025-04-10T15:00:00Z give 2025-04-17T20:00:00Z.
C20_RemoteFailureGivesEmptyList ==
    /\ \A c \in 1..MaxCalls :
          (calls[c].fetched /\ calls[c].response.failed)
             => calls[c].pc = "returned" /\ calls[c].returned = <<>>
    /\ (calcCall # 0 /\ calls[calcCall].fetched /\ calls[calcCall].response.failed)
          => /\ pc \in {"awaitFindAll", "done"}
             /\ pc = "done" => /\ holidays = {}
                               /\ output = IsoString(17, 20, 0, 0, 0, 0)

\* The store was read empty, the remote source failed, and the calculation
\* finished without holidays.
C20_Witness ==
    /\ pc = "done"
    /\ calls[calcCall].cacheValid /\ calls[calcCall].holidaysFromDb = <<>>
    /\ store = {}
    /\ calls[calcCall].fetched /\ calls[calcCall].response.failed
    /\ holidays = {}
    /\ output = IsoString(17, 20, 0, 0, 0, 0)

\* Another findAll is fetching from the remote source or has its write pending.
RefreshUnderWay(c) ==
    \E d \in 1..MaxCalls \ {c} :
        calls[d].pc = "apiRepository.findAll" \/ calls[d].write = "pending"

\* C21: nothing excludes concurrent refreshes: a findAll that starts while the
\* cache is stale goes to the remote source even when another findAll has its
\* fetch in flight or its write pending, and a pending write stays pending when
\* the write of another call ends, so both writes reach the store.
C21_NoMutualExclusion ==
    [][\A c \in 1..MaxCalls :
          /\ (calls[c].pc = "idle" /\ calls'[c].pc # "idle" /\ ~Fresh
                 /\ RefreshUnderWay(c))
                => /\ calls'[c].pc = "apiRepository.findAll"
                   /\ \A d \in 1..MaxCalls \ {c} : calls'[d] = calls[d]
          /\ (calls[c].write = "pending"
                 /\ \E d \in 1..MaxCalls \ {c} :
                       calls[d].write = "pending" /\ calls'[d].write # "pending")
                => calls'[c].write = "pending"]_vars

\* Two findAll calls that both started stale have the write of the same list
\* pending at once.
C21_Witness ==
    \E c, d \in 1..MaxCalls :
        /\ c # d
        /\ calls[c].write = "pending" /\ calls[d].write = "pending"
        /\ calls[c].holidaysFromApi = calls[d].holidaysFromApi
        /\ ~calls[c].cacheValid /\ calls[c].fetched
        /\ lastFetchTime = None

\* No two documents of the collection have the same date.
OnePerDate(docs) == \A h, g \in docs : h.date = g.date => h = g

\* `after` is `before` with the list written over it by date: the last holiday
\* the list has for a date is in it, and every other document is as it was.
WrittenOver(before, list, after) ==
    /\ \A k \in 1..Len(list) :
          (\A j \in (k + 1)..Len(list) : list[j].date # list[k].date)
             => list[k] \in after
    /\ \A h \in after : h \in before \/ h \in ListOf(list)
    /\ \A h \in before : h \in after \/ \E k \in 1..Len(list) : list[k].date = h.date

C23_FetchTimeOnlyOnSuccess ==
    [][/\ lastFetchTime' # lastFetchTime
             => /\ lastFetchTime' = Date(clock)
                /\ \/ \E i \in 1..Len(saves) :
                         /\ saves' = remove(saves, i)
                         /\ ListOf(saves[i]) \subseteq store'
                   \/ \E c \in 1..MaxCalls :
                         /\ calls[c].write = "pending" /\ calls'[c].write # "pending"
                         /\ ListOf(calls[c].holidaysFromApi) \subseteq store'
       /\ \A c \in 1..MaxCalls :
             \/ calls[c].write = "none" /\ calls'[c].write = "pending"
             \/ calls[c].write = "pending" /\ calls'[c].write = "unhandledRejection"
                => lastFetchTime' = lastFetchTime
       /\ \A c \in 1..MaxCalls :
             (lastFetchTime = None /\ calls[c].pc = "idle" /\ calls'[c].pc # "idle")
                => calls'[c].pc = "apiRepository.findAll"]_vars

\* The write of the calculation's findAll failed, lastFetchTime is still null,
\* and the next findAll is fetching from the remote source again.
C23_Witness ==
    /\ lastFetchTime = None
    /\ calcCall # 0
    /\ calls[calcCall].write = "unhandledRejection"
    /\ \E c \in 1..MaxCalls :
          c # calcCall /\ calls[c].pc = "apiRepository.findAll"

\* C24: a findAll that started while the cache was not fresh (lastFetchTime
\* null or a TTL old) never reads the store: it is never waiting for the store,
\* it has nothing from it, and what it returns is what the remote source
\* delivered, the empty list when the remote source failed, whatever the store
\* holds.
C24_StaleNeverReadsStore ==
    \A c \in 1..MaxCalls :
        (calls[c].pc \notin {"idle", "over"} /\ ~calls[c].cacheValid)
           => /\ calls[c].pc # "dbRepository.findAll"
              /\ calls[c].holidaysFromDb = <<>>
              /\ calls[c].pc # "rejected"
              /\ calls[c].pc = "returned"
                    => /\ calls[c].fetched
                       /\ {h.date.day : h \in ListOf(calls[c].returned)}
                             = RemoteDates(calls[c].response)
                       /\ Len(calls[c].returned)
                             = Cardinality(RemoteDates(calls[c].response))
                       /\ calls[c].response.failed => calls[c].returned = <<>>

\* The cache was never refreshed, the store holds the holidays of 2025-04-17
\* and 2025-04-18, the remote source failed, and the calculation went on
\* without holidays.
C24_Witness ==
    /\ pc = "done"
    /\ lastFetchTime = None
    /\ ~calls[calcCall].cacheValid
    /\ calls[calcCall].response.failed
    /\ store = {IHoliday(17, 5, "Holiday"), IHoliday(18, 5, "Holiday")}
    /\ repository = <<>>
    /\ output = IsoString(17, 20, 0, 0, 0, 0)

(***************************************************************************)
(* Properties of the whole calculation (specification SpecCalc).           *)
(***************************************************************************)

\* C25: whatever the input instant and the holiday set, the moment the
\* calculation ends on (after snap, days and hours) is on a working day, at a
\* time of day from 08:00:00 to 17:00:00.
C25_ResultInWorkingTime ==
    pc = "done"
        => /\ WorkingDay(workingDate.date.day, holidays)
           /\ MsOfDay(workingDate.date) >= 8 * HourMs
           /\ MsOfDay(workingDate.date) <= 17 * HourMs

\* C26: snap may move the start backward, but a calculation that adds
\* something (days + hours >= 1) ends strictly later than the instant it was
\* given, whatever the instant and the holiday set.
C26_ResultStrictlyLater ==
    (pc = "done" /\ input.days + input.hours >= 1)
        => Before(origin.date, workingDate.date)

\* Saturday 2025-04-12 14:00 is snapped back to Friday 17:00, and one hour
\* from there is Monday 09:00 (2025-04-14T14:00:00Z).
C26_Witness ==
    /\ pc = "done"
    /\ input = [days |-> 0, hours |-> 1, date |-> IsoString(12, 19, 0, 0, 0, 0)]
    /\ holidays = {}
    /\ Before(snapToWorkingTime(origin, holidays).date, origin.date)
    /\ output = IsoString(14, 14, 0, 0, 0, 0)

(***************************************************************************)
(* Further algebraic properties of the engine (specification Spec).        *)
(***************************************************************************)

\* C27: snapToWorkingTime is idempotent: called on the moment a first call
\* returned it returns that moment again; and a moment of a working day inside
\* [08:00, 12:00) or [13:00, 17:00) is returned unchanged by the first call.
C27_SnapIdempotent ==
    /\ (chain = <<"snapToWorkingTime">> /\ op = "snapToWorkingTime")
          => result = this
    /\ (chain = <<>> /\ op = "snapToWorkingTime"
          /\ WorkingDay(this.date.day, holidays)
          /\ (this.date.hour \in 8..11 \/ this.date.hour \in 13..16))
          => result = this

\* A moment of a non-working day was moved by the first call (to 17:00:00 of
\* an earlier day), and the second call left that moment where it was.
C27_Witness ==
    /\ chain = <<"snapToWorkingTime">> /\ op = "snapToWorkingTime"
    /\ ~WorkingDay(origin.date.day, holidays)
    /\ this.date = DateTime(this.date.day, 17, 0, 0, 0)
    /\ this.date.day < origin.date.day
    /\ result = this

(***************************************************************************)
(* Termination of the loops (specification SpecLoops).                     *)
(***************************************************************************)
\* The start of a working block: 08:00 or 13:00 of a working day.
BlockStart(t, H) ==
    WorkingDay(t.day, H) /\ t.hour \in {8, 13} /\ t.minute = 0

C29_AdditiveComposition ==
    /\ (chain = <<"snapToWorkingTime">> /\ op = "addWorkDays")
          => \A a \in 0..arg :
                addWorkDays(addWorkDays(this, a, holidays), arg - a, holidays) = result
    /\ (chain = <<"snapToWorkingTime">> /\ op = "addWorkHours")
          => \A a \in 0..arg :
                addWorkHours(addWorkHours(this, a, holidays), arg - a, holidays) = result

\* From the Friday 17:00 a weekend moment was snapped to, 4 hours end on the
\* lunch boundary of the next working day and 5 more end where 9 hours do.
C29_Witness ==
    /\ chain = <<"snapToWorkingTime">> /\ op = "addWorkHours" /\ arg = 9
    /\ ~WorkingDay(origin.date.day, holidays)
    /\ this.date.hour = 17
    /\ addWorkHours(this, 4, holidays).date.hour = 12
    /\ result = addWorkHours(addWorkHours(this, 4, holidays), 5, holidays)
    /\ result.date.hour = 9

====
